---- MODULE Spec2Model ----
(***************************************************************************)
(* A model of the compositor core of blitter-blaster (src/src/engine):     *)
(* the tile range iterator (Bitmap::tile_cols / tile_rows / TileIter),     *)
(* the spatial index rebuild (CollisionPlugin::update), the per-frame      *)
(* compositor (BitmapPlugin::update) and the fade effect                   *)
(* (Camera::fade_in / fade_out, FadePlugin::update).                       *)
(*                                                                         *)
(* f32 quantities (positions, camera translation, depth) are fixed-point   *)
(* integers counting 1/2048 units, so that every product and difference    *)
(* the code computes on the modelled values is exact in f32 as well.       *)
(***************************************************************************)
EXTENDS Integers, Sequences, FiniteSets, TLC

VARIABLES
    tstatus,     \* tile iterator: "idle" | "iterating" | "exhausted" | "panicked"
    targs,       \* the arguments of the last tile_cols / tile_rows call
    titer,       \* the TileIter struct: [current, step, end]
    yielded,     \* the offsets TileIter::next has returned so far
    stage,       \* position in the frame schedule
    world,       \* entity -> its Bitmap handle, Transform, Tiled and ScreenSpace
    fades,       \* entity -> its Fade component
    rasters,     \* the Arc heap: handle -> Raster
    camera,      \* the Camera resource: viewport translation and output raster
    bvh,         \* BvhResource: the entries inserted since the last clear
    commands,    \* despawn commands queued in this stage
    signalled,   \* entity -> number of despawn commands FadePlugin::update issued
    applied,     \* fading entity -> its factory and the alphas applied so far
    nextEntity,  \* the next entity id
    draw,        \* what the last BitmapPlugin::update did (its locals)
    frame        \* PixelsResource: the frame buffer of the presentation sink

tilevars == <<tstatus, targs, titer, yielded>>

framevars == <<stage, world, fades, rasters, camera, bvh, commands, signalled,
               applied, nextEntity, draw, frame>>

vars == <<tstatus, targs, titer, yielded, stage, world, fades, rasters, camera,
          bvh, commands, signalled, applied, nextEntity, draw, frame>>

----------------------------------------------------------------------------
(* Bounds of the tile iterator specification.                              *)
MaxStart == 7
MaxStep == 4
MaxEnd == 6

----------------------------------------------------------------------------
(* i32 arithmetic.                                                         *)
I32Max == 2147483647

\* Rust's % on i32: the remainder has the sign of the dividend.
Rem(a, b) == IF a >= 0 THEN a % b ELSE -((-a) % b)

\* i32 addition as a release build computes it (two's complement wrap).
\* Written so that no intermediate value leaves the i32 range.
I32Add(a, b) ==
    IF b > 0 /\ a > I32Max - b THEN (a - I32Max) + (b - I32Max) - 2
    ELSE IF b < 0 /\ a < (-I32Max - 1) - b THEN (a + I32Max) + (b + I32Max) + 2
    ELSE a + b

----------------------------------------------------------------------------
(* Bitmap::tile_rows / Bitmap::tile_cols.                                  *)

\* let current = start % step;
\* let current = if current > 0 { current - step } else { current };
TileStartShifted(start, step) ==
    LET current == Rem(start, step) IN current - step

TileStart(start, step) ==
    LET current == Rem(start, step)
    IN  IF current > 0 THEN current - step ELSE current

NewTileIter(start, step, end) ==
    [current |-> TileStart(start, step), step |-> step, end |-> end]

\* A call of tile_cols (axis "x", step = bitmap width) or tile_rows
\* (axis "y", step = bitmap height).  start % step panics for step = 0.
TileCallUnchecked(axis, start, step, end) ==
    /\ tstatus = "idle"
    /\ targs' = [axis |-> axis, start |-> start, step |-> step, end |-> end]
    /\ yielded' = <<>>
    /\ tstatus' = "iterating"
    /\ titer' = IF step = 0
                THEN [current |-> 0, step |-> step, end |-> end]
                ELSE NewTileIter(start, step, end)
    /\ UNCHANGED framevars

TileCall(axis, start, step, end) ==
    /\ tstatus = "idle"
    /\ targs' = [axis |-> axis, start |-> start, step |-> step, end |-> end]
    /\ yielded' = <<>>
    /\ IF step = 0
       THEN /\ tstatus' = "panicked"
            /\ UNCHANGED titer
       ELSE /\ tstatus' = "iterating"
            /\ titer' = NewTileIter(start, step, end)
    /\ UNCHANGED framevars

tile_cols ==
    \E start \in -MaxStart..MaxStart, width \in 0..MaxStep, end \in 1..MaxEnd :
        TileCall("x", start, width, end)

tile_rows ==
    \E start \in -MaxStart..MaxStart, height \in 0..MaxStep, end \in 1..MaxEnd :
        TileCall("y", start, height, end)

\* TileIter::next
TileIterHasNextLe(it) == it.current <= it.end

TileIterHasNext(it) == it.current < it.end

TileIter_next ==
    /\ tstatus = "iterating"
    /\ IF TileIterHasNext(titer)
       THEN /\ yielded' = Append(yielded, titer.current)
            /\ titer' = [titer EXCEPT !.current = I32Add(titer.current, titer.step)]
            /\ UNCHANGED tstatus
       ELSE /\ tstatus' = "exhausted"
            /\ UNCHANGED <<titer, yielded>>
    /\ UNCHANGED targs
    /\ UNCHANGED framevars

TileInit ==
    /\ tstatus = "idle"
    /\ targs = [axis |-> "x", start |-> 0, step |-> 1, end |-> 1]
    /\ titer = [current |-> 0, step |-> 1, end |-> 1]
    /\ yielded = <<>>

\* The for loop over the iterator has ended (or the panic has unwound):
\* the iterator is dropped, and the next call builds a fresh one.
TileDrop ==
    /\ tstatus \in {"exhausted", "panicked"}
    /\ tstatus' = "idle"
    /\ targs' = [axis |-> "x", start |-> 0, step |-> 1, end |-> 1]
    /\ titer' = [current |-> 0, step |-> 1, end |-> 1]
    /\ yielded' = <<>>
    /\ UNCHANGED framevars

TileNext == tile_cols \/ tile_rows \/ TileIter_next \/ TileDrop

----------------------------------------------------------------------------
(* Bounds of the frame specification.                                      *)
MaxEntities == 2     \* entities spawned in one run
MaxDuration == 2     \* longest fade, in time units
MaxDelta == 2        \* longest frame delta, in time units
ViewWidth == 4       \* the camera raster and viewport size
ViewHeight == 4

----------------------------------------------------------------------------
(* f32 values as fixed-point integers counting 1/2048.                     *)
FromInt(n) == n * 2048

FromHalves(n) == n * 1024

\* `v as i32` and `v as i64`: the fraction is dropped, toward zero.
Trunc(v) == IF v >= 0 THEN v \div 2048 ELSE -((-v) \div 2048)

\* Transform.translation.z: a finite value or f32::INFINITY.  sat tells
\* whether z * 1000.0 is beyond the i64 range (z >= 2^63 / 1000); such a
\* finite z is Far, its magnitude is not recorded.
Finite(v) == [fin |-> TRUE, sat |-> FALSE, v |-> v]

Far == [fin |-> TRUE, sat |-> TRUE, v |-> 0]

Infinity == [fin |-> FALSE, sat |-> TRUE, v |-> 0]

----------------------------------------------------------------------------
(* pix: premultiplied Rgba8p colours <<r, g, b, a>> and Ch8 arithmetic.    *)
Clear == <<0, 0, 0, 0>>

Red == <<255, 0, 0, 255>>

Blue == <<0, 0, 255, 255>>

White == <<255, 255, 255, 255>>

Min(a, b) == IF a < b THEN a ELSE b

Max(a, b) == IF a > b THEN a ELSE b

\* Ch8 * Ch8: both operands widened to 12 bits, the product cut to 8.
Ch8Mul(a, b) ==
    LET l == a * 16 + a \div 16
        r == b * 16 + b \div 16
    IN  (l * r) \div 65536

\* Ch8 + Ch8 and Ch8 - Ch8 saturate.
Ch8Add(a, b) == Min(255, a + b)

Ch8Sub(a, b) == Max(0, a - b)

\* Ch8::from(n / d as f32) for 0 <= n / d <= 1: scaled to 0..255, rounded.
Ch8From(n, d) == (2 * 255 * n + d) \div (2 * d)

\* Channel::lerp(self, rhs, t)
Ch8Lerp(a, b, t) ==
    IF a > b THEN Ch8Sub(a, Ch8Mul(t, a - b)) ELSE Ch8Add(a, Ch8Mul(t, b - a))

\* SrcOver: dst = src + dst * (1 - src.alpha), channel by channel.
SrcOver(src, dst) ==
    [i \in 1..4 |-> Ch8Add(src[i], Ch8Mul(dst[i], 255 - src[4]))]

\* A bitmap raster of one colour (Raster::with_color / with_clear, and the
\* decoded images, which the model takes to be of one colour each).
Raster(width, height, color) ==
    [width |-> width, height |-> height, color |-> color]

Pixels == (0..(ViewWidth - 1)) \X (0..(ViewHeight - 1))

\* Raster::clear / Raster::with_clear for the camera raster.
ClearRaster == [p \in Pixels |-> Clear]

\* Raster::composite_raster((x, y), src, (), SrcOver): every pixel of src
\* that lands inside dst is blended, the others are clipped.
CompositeAt(dst, x, y, src) ==
    [p \in Pixels |->
        IF /\ x <= p[1] /\ p[1] < x + src.width
           /\ y <= p[2] /\ p[2] < y + src.height
        THEN SrcOver(src.color, dst[p])
        ELSE dst[p]]

----------------------------------------------------------------------------
(* The ECS world and the Arc heap.                                         *)
EmptyFn == [e \in {} |-> 0]

Extend(f, k, v) == [e \in DOMAIN f \cup {k} |-> IF e = k THEN v ELSE f[e]]

Remove(f, S) == [e \in DOMAIN f \ S |-> f[e]]

\* Arc::new: an address no live Arc has.
FreshHandle(heap) ==
    CHOOSE h \in 1..(Cardinality(DOMAIN heap) + 1) :
        /\ h \notin DOMAIN heap
        /\ \A g \in 1..(h - 1) : g \in DOMAIN heap

\* Dropping the last Arc of a raster frees it.
DropUnused(heap, w) ==
    [h \in {w[e].bitmap : e \in DOMAIN w} |-> heap[h]]

Placement(handle, x, y, z, tiled, screen) ==
    [bitmap |-> handle, x |-> x, y |-> y, z |-> z,
     tiled |-> tiled, screen |-> screen]

\* What the scenes place.  A layer is a depth and the image drawn at it; an
\* anchor is a position and how it is to be read (world or screen space,
\* drawn once or tiled).
Depths == {Finite(FromInt(0)), Finite(FromInt(1))}

Layers ==
    {[z |-> Finite(FromInt(0)), image |-> Raster(2, 2, Red)],
     [z |-> Finite(1), image |-> Raster(2, 2, Blue)],
     [z |-> Finite(FromInt(1)), image |-> Raster(2, 2, Blue)],
     [z |-> Infinity, image |-> Raster(2, 2, Red)]}

WorldPositions == {<<FromInt(0), FromInt(0)>>, <<FromInt(1), FromInt(0)>>}

Positions == WorldPositions \cup {<<FromHalves(-3), FromHalves(1)>>}

Anchors ==
    {[x |-> pos[1], y |-> pos[2], tiled |-> tiled, screen |-> screen] :
        pos \in Positions, tiled \in BOOLEAN, screen \in BOOLEAN}

CameraPositions == {<<FromInt(0), FromInt(0)>>, <<FromHalves(3), FromInt(-1)>>}

NoDraw == [ran |-> FALSE, hits |-> {}, presort |-> <<>>, sorted |-> <<>>,
           resolved |-> <<>>, composites |-> <<>>]

\* CameraPlugin::build: identity transform, cleared raster; nothing spawned.
FrameInit ==
    /\ stage = "fade"
    /\ world = EmptyFn
    /\ fades = EmptyFn
    /\ rasters = EmptyFn
    /\ camera = [x |-> 0, y |-> 0, raster |-> ClearRaster]
    /\ bvh = <<>>
    /\ commands = {}
    /\ signalled = EmptyFn
    /\ applied = EmptyFn
    /\ nextEntity = 1
    /\ draw = NoDraw
    /\ frame = [k \in 1..(ViewWidth * ViewHeight * 4) |-> 0]

----------------------------------------------------------------------------
(* Scene systems of the Update stage.                                      *)
SpawnWith(raster, placement) ==
    LET h == FreshHandle(rasters)
    IN  /\ nextEntity <= MaxEntities
        /\ rasters' = Extend(rasters, h, raster)
        /\ world' = Extend(world, nextEntity, [placement EXCEPT !.bitmap = h])
        /\ nextEntity' = nextEntity + 1

\* commands.spawn((bitmap, transform, [Tiled], [ScreenSpace]))
Spawn ==
    /\ stage = "scene"
    /\ \E a \in Anchors, l \in Layers :
          SpawnWith(l.image, Placement(0, a.x, a.y, l.z, a.tiled, a.screen))
    /\ UNCHANGED <<stage, fades, camera, bvh, commands, signalled, applied, draw>>
    /\ UNCHANGED frame
    /\ UNCHANGED tilevars

\* commands.spawn((bitmap, transform, ScreenSpace)) with a finite depth so
\* large that its sort key saturates.  Only screen-space placements get
\* such a depth: camera.translation * z is then not used.
SpawnOverlay ==
    /\ stage = "scene"
    /\ \E pos \in WorldPositions :
          SpawnWith(Raster(2, 2, Blue), Placement(0, pos[1], pos[2], Far, FALSE, TRUE))
    /\ UNCHANGED <<stage, fades, camera, bvh, commands, signalled, applied, draw>>
    /\ UNCHANGED frame
    /\ UNCHANGED tilevars

\* A placement whose Bitmap is a clone of another entity's (Bitmap: Clone).
SpawnClone ==
    /\ stage = "scene"
    /\ nextEntity <= MaxEntities
    /\ \E src \in DOMAIN world, pos \in WorldPositions, z \in Depths :
          world' = Extend(world, nextEntity,
                      Placement(world[src].bitmap, pos[1], pos[2], z, FALSE, FALSE))
    /\ nextEntity' = nextEntity + 1
    /\ UNCHANGED <<stage, fades, rasters, camera, bvh, commands, signalled,
                   applied, draw>>
    /\ UNCHANGED frame
    /\ UNCHANGED tilevars

NewFade(duration, from, to, base_color) ==
    [elapsed |-> 0, duration |-> duration, finished |-> FALSE,
     from |-> from, to |-> to, base_color |-> base_color]

\* Camera::fade_in(time_seconds, width, height, base_color)
fade_in(duration, width, height, base_color) ==
    [bitmap |-> Raster(width, height, base_color),
     fade |-> NewFade(duration, 255, 0, base_color),
     transform |-> Placement(0, 0, 0, Infinity, FALSE, TRUE)]

\* Camera::fade_out(time_seconds, width, height, base_color)
fade_out(duration, width, height, base_color) ==
    [bitmap |-> Raster(width, height, Clear),
     fade |-> NewFade(duration, 0, 255, base_color),
     transform |-> Placement(0, 0, 0, Infinity, FALSE, TRUE)]

\* commands.spawn(Camera::fade_in(..)) / commands.spawn(Camera::fade_out(..))
SpawnFade ==
    /\ stage = "scene"
    /\ \E duration \in 1..MaxDuration, in \in BOOLEAN :
          LET bundle == IF in
                        THEN fade_in(duration, ViewWidth, ViewHeight, White)
                        ELSE fade_out(duration, ViewWidth, ViewHeight, White)
          IN  /\ SpawnWith(bundle.bitmap, bundle.transform)
              /\ fades' = Extend(fades, nextEntity, bundle.fade)
              /\ signalled' = Extend(signalled, nextEntity, 0)
              /\ applied' = Extend(applied, nextEntity,
                              [in |-> in, alphas |-> <<>>])
    /\ UNCHANGED <<stage, camera, bvh, commands, draw>>
    /\ UNCHANGED frame
    /\ UNCHANGED tilevars

\* A scene's exit system despawns the placements it spawned.
Despawn ==
    /\ stage = "scene"
    /\ DOMAIN world \ (DOMAIN fades \cup commands) # {}
    /\ commands' = commands \cup (DOMAIN world \ DOMAIN fades)
    /\ UNCHANGED <<stage, world, fades, rasters, camera, bvh, signalled,
                   applied, nextEntity, draw>>
    /\ UNCHANGED frame
    /\ UNCHANGED tilevars

\* camera.transform_mut().translation = ..
MoveCamera ==
    /\ stage = "scene"
    /\ \E pos \in CameraPositions :
          /\ <<camera.x, camera.y>> # pos
          /\ camera' = [camera EXCEPT !.x = pos[1], !.y = pos[2]]
    /\ UNCHANGED <<stage, world, fades, rasters, bvh, commands, signalled,
                   applied, nextEntity, draw>>
    /\ UNCHANGED frame
    /\ UNCHANGED tilevars

\* The end of the Update stage: the queued commands are applied.
ApplyCommands ==
    /\ stage = "scene"
    /\ stage' = "collision"
    /\ world' = Remove(world, commands)
    /\ fades' = Remove(fades, commands)
    /\ rasters' = DropUnused(rasters, world')
    /\ applied' = Remove(applied, commands)
    /\ commands' = {}
    /\ UNCHANGED <<camera, bvh, signalled, nextEntity, draw>>
    /\ UNCHANGED frame
    /\ UNCHANGED tilevars


----------------------------------------------------------------------------
(* FadePlugin::update                                                      *)

\* Timer::tick(delta) of a TimerMode::Once timer that has not finished:
\* elapsed advances and is clamped to the duration once it reaches it.
TimerTick(fade, delta) ==
    LET e == fade.elapsed + delta
    IN  [fade EXCEPT !.elapsed = Min(e, fade.duration),
                     !.finished = (e >= fade.duration)]

FadeAlphaSwapped(fade) ==
    Ch8Lerp(fade.to, fade.from, Ch8From(fade.elapsed, fade.duration))

\* Ch8::from(fade.from).lerp(Ch8::from(fade.to), Ch8::from(timer.percent()))
FadeAlpha(fade) ==
    Ch8Lerp(fade.from, fade.to, Ch8From(fade.elapsed, fade.duration))

\* for chan in color.channels_mut() { *chan = *chan * alpha; }
FadeColor(fade) ==
    [i \in 1..4 |-> Ch8Mul(fade.base_color[i], FadeAlpha(fade))]

\* Bitmap::clear(color) on entity e: self.raster = Arc::new(with_color(..)).
\* The state is [world, rasters].
BitmapClearInPlace(st, e, color) ==
    LET h == st.world[e].bitmap
        old == st.rasters[h]
    IN  [st EXCEPT !.rasters[h] = Raster(old.width, old.height, color)]

BitmapClear(st, e, color) ==
    LET old == st.rasters[st.world[e].bitmap]
        h == FreshHandle(st.rasters)
    IN  [st EXCEPT !.rasters = Extend(st.rasters, h,
                                      Raster(old.width, old.height, color)),
                   !.world[e].bitmap = h]

\* The loop body for one (entity, bitmap, fade) of the query.
FadeStepNoDespawn(st, e, delta) ==
    IF st.fades[e].finished
    THEN st
    ELSE LET ticked == TimerTick(st.fades[e], delta)
             cleared == BitmapClear(st, e, FadeColor(ticked))
         IN  [cleared EXCEPT !.fades[e] = ticked,
                             !.applied[e].alphas =
                                 Append(st.applied[e].alphas, FadeAlpha(ticked))]

\* The tick first, then the test of finished(): no raster for the tick
\* that finishes the timer, and the despawn in that same tick.
FadeStepTickFirst(st, e, delta) ==
    LET ticked == TimerTick(st.fades[e], delta)
    IN  IF st.fades[e].finished \/ ticked.finished
        THEN [st EXCEPT !.fades[e] = ticked,
                        !.commands = st.commands \cup {e},
                        !.signalled[e] = st.signalled[e] + 1]
        ELSE LET cleared == BitmapClear(st, e, FadeColor(ticked))
             IN  [cleared EXCEPT !.fades[e] = ticked,
                                 !.applied[e].alphas =
                                     Append(st.applied[e].alphas, FadeAlpha(ticked))]

FadeStep(st, e, delta) ==
    IF st.fades[e].finished
    THEN [st EXCEPT !.commands = st.commands \cup {e},
                    !.signalled[e] = st.signalled[e] + 1]
    ELSE LET ticked == TimerTick(st.fades[e], delta)
             cleared == BitmapClear(st, e, FadeColor(ticked))
         IN  [cleared EXCEPT !.fades[e] = ticked,
                             !.applied[e].alphas =
                                 Append(st.applied[e].alphas, FadeAlpha(ticked))]

RECURSIVE FadeLoop(_, _, _)
FadeLoop(st, todo, delta) ==
    IF todo = {} THEN st
    ELSE LET e == CHOOSE x \in todo : \A y \in todo : x <= y
         IN  FadeLoop(FadeStep(st, e, delta), todo \ {e}, delta)

\* FadePlugin::update, with time.delta() = delta.  It is the first system
\* of a frame to run; the locals of the previous draw are gone.
FadeUpdate ==
    /\ stage = "fade"
    /\ \E delta \in 1..MaxDelta :
          LET st == FadeLoop([world |-> world, fades |-> fades, rasters |-> rasters,
                              commands |-> commands, signalled |-> signalled,
                              applied |-> applied],
                             DOMAIN fades, delta)
          IN  /\ world' = st.world
              /\ fades' = st.fades
              /\ rasters' = DropUnused(st.rasters, st.world)
              /\ commands' = st.commands
              /\ signalled' = st.signalled
              /\ applied' = st.applied
    /\ stage' = "scene"
    /\ draw' = NoDraw
    /\ UNCHANGED <<camera, bvh, nextEntity>>
    /\ UNCHANGED frame
    /\ UNCHANGED tilevars

----------------------------------------------------------------------------
(* CollisionPlugin::update                                                 *)
Aabb(minx, miny, maxx, maxy) ==
    [minx |-> minx, miny |-> miny, maxx |-> maxx, maxy |-> maxy]

\* Bitmap::to_aabb(transform)
BitmapToAabb(raster, transform) ==
    Aabb(transform.x, transform.y,
         transform.x + FromInt(raster.width), transform.y + FromInt(raster.height))

\* Camera::to_aabb()
CameraToAabb(cam) ==
    Aabb(cam.x, cam.y, cam.x + FromInt(ViewWidth), cam.y + FromInt(ViewHeight))

\* The entities the query (Entity, &Bitmap, &Transform) yields.
CollisionQueryUnflagged(w) ==
    {e \in DOMAIN w : ~w[e].tiled /\ ~w[e].screen}

CollisionQuery(w) == DOMAIN w

RECURSIVE BvhInsertAll(_, _)
BvhInsertAll(entries, todo) ==
    IF todo = {} THEN entries
    ELSE LET e == CHOOSE x \in todo : \A y \in todo : x <= y
         IN  BvhInsertAll(
                 Append(entries,
                        [entity |-> e,
                         aabb |-> BitmapToAabb(rasters[world[e].bitmap], world[e])]),
                 todo \ {e})

\* bvh.clear()
BvhKeep(entries) == entries

BvhClear(entries) == <<>>

CollisionUpdate ==
    /\ stage = "collision"
    /\ stage' = "draw"
    /\ bvh' = BvhInsertAll(BvhClear(bvh), CollisionQuery(world))
    /\ UNCHANGED <<world, fades, rasters, camera, commands, signalled, applied,
                   nextEntity, draw>>
    /\ UNCHANGED frame
    /\ UNCHANGED tilevars


----------------------------------------------------------------------------
(* BitmapPlugin::update                                                    *)

\* Aabb overlap, with and without boxes that only touch.
OverlapsStrict(a, b) ==
    /\ a.minx < b.maxx /\ b.minx < a.maxx
    /\ a.miny < b.maxy /\ b.miny < a.maxy

OverlapsTouching(a, b) ==
    /\ a.minx <= b.maxx /\ b.minx <= a.maxx
    /\ a.miny <= b.maxy /\ b.miny <= a.maxy

\* bvh.for_each_overlaps(&camera_aabb, ..): the sets of entities the
\* callback may be given.  Boxes that overlap are reported; whether boxes
\* that only share an edge are is left open.
BvhOverlaps(entries, volume) ==
    LET sure == {entries[i].entity : i \in
                    {j \in 1..Len(entries) : OverlapsStrict(entries[j].aabb, volume)}}
        may == {entries[i].entity : i \in
                    {j \in 1..Len(entries) : OverlapsTouching(entries[j].aabb, volume)}}
    IN  {sure \cup extra : extra \in SUBSET (may \ sure)}

\* tiled_bitmaps / screen_bitmaps: Query<DrawableBitmap, With<..>>
TiledBitmaps(w) == {e \in DOMAIN w : w[e].tiled}

ScreenBitmaps(w) == {e \in DOMAIN w : w[e].screen}

Perms(S) ==
    {f \in [1..Cardinality(S) -> S] : \A i, j \in 1..Cardinality(S) : f[i] = f[j] => i = j}

\* One source after the other into a Vec instead of a HashSet.
RECURSIVE SeqOfSet(_)
SeqOfSet(S) ==
    IF S = {} THEN <<>>
    ELSE LET e == CHOOSE x \in S : \A y \in S : x <= y
         IN  <<e>> \o SeqOfSet(S \ {e})

VisibleListNoDedup(hits, w) ==
    {SeqOfSet(hits) \o SeqOfSet(TiledBitmaps(w)) \o SeqOfSet(ScreenBitmaps(w))}

\* entities: HashSet = overlaps + tiled + screen-space; then
\* entities.into_iter() in the order the hash set happens to have.
VisibleList(hits, w) ==
    Perms(hits \cup TiledBitmaps(w) \cup ScreenBitmaps(w))

\* (translation.z * 1000.0) as i64.  The cast saturates: +inf and every
\* product beyond the i64 range give i64::MAX, written [max |-> TRUE].
DepthKey(z) ==
    IF z.sat THEN [max |-> TRUE, k |-> 0]
    ELSE [max |-> FALSE, k |-> Trunc(z.v * 1000)]

KeyGeq(a, b) == a.max \/ (~b.max /\ b.k <= a.k)

KeyLeq(a, b) == b.max \/ (~a.max /\ a.k <= b.k)

IsSortedByKey(list, w) ==
    \A i, j \in 1..Len(list) :
        i < j => KeyLeq(DepthKey(w[list[i]].z), DepthKey(w[list[j]].z))

\* bitmaps.sort_unstable_by_key(..): the results it may give, each a
\* rearrangement of the Vec.  Elements with equal keys come out in any order.
SortSkipped(list, w) == {list}

SortUnstableByKey(list, w) ==
    {s \in {[i \in 1..Len(list) |-> list[pi[i]]] : pi \in Perms(1..Len(list))} :
        IsSortedByKey(s, w)}

\* The destination of a placement: lines 104-116.
\* x and cam.x count 1/2048, their product with z counts 1/2048^2.
TruncSq(v) == IF v >= 0 THEN v \div 4194304 ELSE -((-v) \div 4194304)

ResolvePositionWorldOnly(p, cam) ==
    LET z == IF p.z.fin THEN p.z.v ELSE FromInt(1)
    IN  <<TruncSq(p.x * 2048 - cam.x * z), TruncSq(p.y * 2048 - cam.y * z)>>

ResolvePositionNoParallax(p, cam) ==
    IF p.screen
    THEN <<Trunc(p.x), Trunc(p.y)>>
    ELSE <<Trunc(p.x - cam.x), Trunc(p.y - cam.y)>>

ResolvePosition(p, cam) ==
    IF p.screen
    THEN <<Trunc(p.x), Trunc(p.y)>>
    ELSE LET z == IF p.z.fin THEN p.z.v ELSE FromInt(1)
         IN  <<TruncSq(p.x * 2048 - cam.x * z), TruncSq(p.y * 2048 - cam.y * z)>>

\* The items of tile_cols(start, ..) / tile_rows(start, ..), collected.
RECURSIVE TileCollect(_, _)
TileCollect(it, acc) ==
    IF TileIterHasNext(it)
    THEN TileCollect([it EXCEPT !.current = I32Add(it.current, it.step)],
                     Append(acc, it.current))
    ELSE acc

TileOffsets(start, step, end) == TileCollect(NewTileIter(start, step, end), <<>>)

\* for x in tile_cols(x, width) { for y in tile_rows(y, height) { .. } }
RECURSIVE TileGrid(_, _, _, _)
TileGrid(e, xs, ys, i) ==
    IF i > Len(xs) * Len(ys) THEN <<>>
    ELSE <<[entity |-> e,
            x |-> xs[((i - 1) \div Len(ys)) + 1],
            y |-> ys[((i - 1) % Len(ys)) + 1]]>>
         \o TileGrid(e, xs, ys, i + 1)

\* The composite_raster calls for one entry of the sorted list.
CompositesOf(e, w, heap, cam) ==
    LET pos == ResolvePosition(w[e], cam)
        bitmap == heap[w[e].bitmap]
    IN  IF w[e].tiled
        THEN TileGrid(e, TileOffsets(pos[1], bitmap.width, ViewWidth),
                         TileOffsets(pos[2], bitmap.height, ViewHeight), 1)
        ELSE <<[entity |-> e, x |-> pos[1], y |-> pos[2]]>>

RECURSIVE CompositesOfAll(_, _, _, _, _)
CompositesOfAll(list, i, w, heap, cam) ==
    IF i > Len(list) THEN <<>>
    ELSE CompositesOf(list[i], w, heap, cam) \o CompositesOfAll(list, i + 1, w, heap, cam)

RECURSIVE Paint(_, _, _, _, _)
Paint(dst, calls, i, w, heap) ==
    IF i > Len(calls) THEN dst
    ELSE Paint(CompositeAt(dst, calls[i].x, calls[i].y, heap[w[calls[i].entity].bitmap]),
               calls, i + 1, w, heap)

\* camera_raster.clear()
CameraKeep(raster) == raster

CameraClear(raster) == ClearRaster

\* Raster::as_u8_slice: the pixels row by row, four bytes (r, g, b, a) each.
AsU8Slice(raster) ==
    [k \in 1..(ViewWidth * ViewHeight * 4) |->
        LET i == (k - 1) \div 4
        IN  raster[<<i % ViewWidth, i \div ViewWidth>>][((k - 1) % 4) + 1]]

\* get_frame_mut().copy_from_slice(src): the lengths are equal, both
\* come from the screen resolution of CameraPlugin::build.
CopyFromSlice(dst, src) == [k \in 1..Len(dst) |-> src[k]]

\* The run of the system once the overlap query has reported hits.
\* bitmaps.get(entity).unwrap() panics for an entity that has no Bitmap
\* and Transform any more; the raster has been cleared by then.
BitmapDraw(hits) ==
    IF hits \subseteq DOMAIN world
    THEN /\ stage' = "fade"
         /\ \E presort \in VisibleList(hits, world) :
            \E sorted \in SortUnstableByKey(presort, world) :
               LET calls == CompositesOfAll(sorted, 1, world, rasters, camera)
               IN  /\ draw' = [ran |-> TRUE, hits |-> hits, presort |-> presort,
                               sorted |-> sorted,
                               resolved |-> [i \in 1..Len(sorted) |->
                                               ResolvePosition(world[sorted[i]], camera)],
                               composites |-> calls]
                   /\ camera' = [camera EXCEPT
                                    !.raster = Paint(CameraClear(camera.raster),
                                                     calls, 1, world, rasters)]
                   /\ frame' = CopyFromSlice(frame, AsU8Slice(camera'.raster))
    ELSE /\ stage' = "panicked"
         /\ draw' = [NoDraw EXCEPT !.hits = hits]
         /\ camera' = [camera EXCEPT !.raster = CameraClear(camera.raster)]
         /\ UNCHANGED frame

BitmapUpdate ==
    /\ stage = "draw"
    /\ \E hits \in BvhOverlaps(bvh, CameraToAabb(camera)) : BitmapDraw(hits)
    /\ UNCHANGED <<world, fades, rasters, bvh, commands, signalled, applied,
                   nextEntity>>
    /\ UNCHANGED tilevars

----------------------------------------------------------------------------
Init == TileInit /\ FrameInit

Next ==
    \/ FadeUpdate
    \/ Spawn
    \/ SpawnOverlay
    \/ SpawnClone
    \/ SpawnFade
    \/ Despawn
    \/ MoveCamera
    \/ ApplyCommands
    \/ CollisionUpdate
    \/ BitmapUpdate

Spec == Init /\ [][Next]_vars

SpecTile == Init /\ [][TileNext]_vars


----------------------------------------------------------------------------
(* C1: the offsets yielded by tile_cols / tile_rows for step >= 1 and      *)
(* end >= 1 are o_0, o_0 + step, ... with o_0 congruent to start modulo    *)
(* step and -step < o_0 <= 0; each is < end; once the iterator is          *)
(* exhausted the last one plus step is >= end, so the intervals            *)
(* [o_i, o_i + step) cover every integer of [0, end) exactly once.         *)
TileCovers(k) ==
    Cardinality({i \in 1..Len(yielded) :
                    yielded[i] <= k /\ k < yielded[i] + targs.step}) = 1

C1_TileCoverage ==
    tstatus \in {"iterating", "exhausted"} =>
        /\ \A i \in 1..Len(yielded) :
              /\ yielded[i] < targs.end
              /\ yielded[i] = yielded[1] + (i - 1) * targs.step
        /\ Len(yielded) >= 1 =>
              /\ (yielded[1] - targs.start) % targs.step = 0
              /\ -targs.step < yielded[1] /\ yielded[1] <= 0
        /\ tstatus = "exhausted" =>
              /\ Len(yielded) >= 1
              /\ yielded[Len(yielded)] + targs.step >= targs.end
              /\ \A k \in 0..(targs.end - 1) : TileCovers(k)

\* An exhausted iteration that needed a negative first offset and
\* several tiles.
C1_Witness ==
    /\ tstatus = "exhausted"
    /\ targs.start > 0
    /\ Len(yielded) >= 3
    /\ yielded[1] < 0

(* C2 as stated: when start is a multiple of step the first offset         *)
(* yielded equals start.                                                   *)
C2_FirstEqualsStart ==
    (tstatus \in {"iterating", "exhausted"} /\ Len(yielded) >= 1
        /\ targs.start % targs.step = 0)
    => yielded[1] = targs.start

(* C2 amended: when start is a multiple of step the first offset yielded   *)
(* is 0 (no shift by -step is applied); it equals start only for           *)
(* start = 0.                                                              *)
C2_AlignedStartsAtZero ==
    (tstatus \in {"iterating", "exhausted"} /\ Len(yielded) >= 1
        /\ targs.start % targs.step = 0)
    => /\ yielded[1] = 0
       /\ (yielded[1] = targs.start <=> targs.start = 0)

C2_Witness ==
    /\ tstatus = "exhausted"
    /\ targs.start = 2 * targs.step
    /\ targs.step >= 2
    /\ Len(yielded) >= 2
    /\ yielded[1] = 0



----------------------------------------------------------------------------
(* Helpers of the statements about one run of BitmapPlugin::update.        *)
IndexIn(list, e) == CHOOSE i \in 1..Len(list) : list[i] = e

Count(list, e) == Cardinality({i \in 1..Len(list) : list[i] = e})

CallsOf(e) == Cardinality({i \in 1..Len(draw.composites) : draw.composites[i].entity = e})

VisibleSet == draw.hits \cup TiledBitmaps(world) \cup ScreenBitmaps(world)

(* C3 as stated: the depth sort is stable: of two placements of the drawn  *)
(* list with equal sort keys, the one that came first in the list before   *)
(* the sort is composited first.                                           *)
C3_SortIsStable ==
    draw.ran =>
        \A i, j \in 1..Len(draw.sorted) :
            (/\ i < j
             /\ DepthKey(world[draw.sorted[i]].z) = DepthKey(world[draw.sorted[j]].z))
            => IndexIn(draw.presort, draw.sorted[i]) < IndexIn(draw.presort, draw.sorted[j])

(* C4: in one run of BitmapPlugin::update no entity appears twice in the   *)
(* list that is sorted and drawn, the list holds exactly the visible set   *)
(* (overlap results, tiled, screen-space), and every non-tiled placement   *)
(* of it is composited exactly once.                                       *)
C4_CompositedOnce ==
    draw.ran =>
        /\ \A e \in VisibleSet :
              /\ Count(draw.presort, e) = 1
              /\ Count(draw.sorted, e) = 1
              /\ ~world[e].tiled => CallsOf(e) = 1
        /\ Len(draw.sorted) = Cardinality(VisibleSet)
        /\ \A i \in 1..Len(draw.composites) : draw.composites[i].entity \in VisibleSet

\* A non-tiled placement that the overlap query returned and that is also
\* selected by its ScreenSpace flag has been drawn.
C4_Witness ==
    /\ draw.ran
    /\ \E e \in draw.hits : world[e].screen /\ ~world[e].tiled /\ CallsOf(e) = 1

(* C5: a placement with the ScreenSpace flag is always in the drawn list,  *)
(* and the position resolved for it is its own (x, y) with the fraction    *)
(* dropped toward zero, whatever the camera translation is.                *)
IsTruncationOf(r, v) ==
    IF v >= 0
    THEN FromInt(r) <= v /\ v < FromInt(r + 1)
    ELSE FromInt(r - 1) < v /\ v <= FromInt(r)

C5_ScreenSpaceIgnoresCamera ==
    draw.ran =>
        \A e \in DOMAIN world :
            world[e].screen =>
                /\ Count(draw.sorted, e) = 1
                /\ LET r == draw.resolved[IndexIn(draw.sorted, e)]
                   IN  /\ IsTruncationOf(r[1], world[e].x)
                       /\ IsTruncationOf(r[2], world[e].y)
                       /\ ~world[e].tiled =>
                             \A i \in 1..Len(draw.composites) :
                                 draw.composites[i].entity = e =>
                                     /\ draw.composites[i].x = r[1]
                                     /\ draw.composites[i].y = r[2]

\* A screen-space placement at a negative fractional x drawn while the
\* camera is away from the origin (where a world-space placement at the
\* same coordinates resolves elsewhere).
C5_Witness ==
    /\ draw.ran
    /\ camera.x # 0
    /\ \E e \in DOMAIN world :
          /\ world[e].screen /\ ~world[e].tiled
          /\ world[e].x < 0 /\ world[e].x % 2048 # 0
          /\ CallsOf(e) = 1
          /\ ResolvePositionWorldOnly(world[e], camera) #
                draw.resolved[IndexIn(draw.sorted, e)]

(* C6: camera at (0, 0), 4x4 raster, a 2x2 opaque red bitmap at            *)
(* (0, 0, depth 0) and a 2x2 opaque blue one at (1, 0, depth 1), both      *)
(* world-space and not tiled: after the index rebuild and one              *)
(* BitmapPlugin::update, pixel (0,0) is red, (1,0) and (1,1) are blue and  *)
(* (3,3) is fully transparent.                                             *)
IsSprite(p, heap, x, y, z, color) ==
    /\ p.x = FromInt(x) /\ p.y = FromInt(y) /\ p.z = Finite(FromInt(z))
    /\ ~p.tiled /\ ~p.screen
    /\ heap[p.bitmap] = Raster(2, 2, color)

C6_Scene ==
    /\ draw.ran
    /\ ViewWidth = 4 /\ ViewHeight = 4
    /\ camera.x = 0 /\ camera.y = 0
    /\ Cardinality(DOMAIN world) = 2
    /\ \E r, b \in DOMAIN world :
          /\ r # b
          /\ IsSprite(world[r], rasters, 0, 0, 0, Red)
          /\ IsSprite(world[b], rasters, 1, 0, 1, Blue)

C6_EndToEnd ==
    C6_Scene =>
        /\ camera.raster[<<0, 0>>] = Red
        /\ camera.raster[<<1, 0>>] = Blue
        /\ camera.raster[<<1, 1>>] = Blue
        /\ camera.raster[<<3, 3>>] = Clear

C6_Witness == C6_Scene /\ Len(draw.composites) = 2

----------------------------------------------------------------------------
(* C7: the removal of a fade's placement is signalled exactly once: not    *)
(* while elapsed < duration, by the first FadePlugin::update that finds    *)
(* elapsed >= duration, and never again.                                   *)
C7_Counts ==
    \A e \in DOMAIN signalled :
        /\ signalled[e] <= 1
        /\ (signalled[e] = 1 /\ e \in DOMAIN fades)
              => fades[e].elapsed >= fades[e].duration
        /\ e \notin DOMAIN world => signalled[e] = 1

C7_Tick ==
    (stage = "fade" /\ stage' = "scene") =>
        \A e \in DOMAIN fades :
            IF fades[e].elapsed >= fades[e].duration
            THEN signalled[e] = 0 /\ signalled'[e] = 1
            ELSE signalled'[e] = 0

C7_SignalledExactlyOnce == []C7_Counts /\ [][C7_Tick]_vars

\* A fade whose removal was signalled and applied, in a later frame.
C7_Witness ==
    /\ stage = "scene"
    /\ \E e \in DOMAIN signalled :
          signalled[e] = 1 /\ e \notin DOMAIN world /\ e \notin commands

(* C8: fade_in gives the ramp (1, 0) and a raster of the base colour, and  *)
(* the alphas its ticks apply never rise and end at 0; fade_out gives the  *)
(* ramp (0, 1) and a fully transparent raster, and the alphas never fall   *)
(* and end at 1.  The raster of the placement is the base colour times     *)
(* the alpha applied last.                                                 *)
Last(seq) == seq[Len(seq)]

C8_FadeRamp ==
    \A e \in DOMAIN fades :
        LET f == fades[e]
            a == applied[e].alphas
            r == rasters[world[e].bitmap]
        IN  /\ f.from = (IF applied[e].in THEN 255 ELSE 0)
            /\ f.to = (IF applied[e].in THEN 0 ELSE 255)
            /\ a = <<>> => r.color = (IF applied[e].in THEN f.base_color ELSE Clear)
            /\ \A i, j \in 1..Len(a) :
                  i < j => IF applied[e].in THEN a[i] >= a[j] ELSE a[i] <= a[j]
            /\ a # <<>> => r.color = [c \in 1..4 |-> (f.base_color[c] * Last(a)) \div 255]
            /\ signalled[e] = 1 =>
                  /\ a # <<>>
                  /\ Last(a) = (IF applied[e].in THEN 0 ELSE 255)
                  /\ r.color = (IF applied[e].in THEN Clear ELSE f.base_color)

\* A fade-in that went through a partial alpha to 0 and a signalled removal.
C8_Witness ==
    \E e \in DOMAIN fades :
        /\ applied[e].in
        /\ signalled[e] = 1
        /\ Len(applied[e].alphas) >= 2
        /\ applied[e].alphas[1] \in 1..254

\* A fade-out that went through a partial alpha to 1.
C8_WitnessOut ==
    \E e \in DOMAIN fades :
        /\ ~applied[e].in
        /\ signalled[e] = 1
        /\ Len(applied[e].alphas) >= 2
        /\ applied[e].alphas[1] \in 1..254

(* C9 as stated: after CollisionPlugin::update the index holds exactly     *)
(* one entry for each placement that is neither Tiled nor ScreenSpace and  *)
(* none for a placement that is Tiled or ScreenSpace.                      *)
EntriesOf(e) == Cardinality({i \in 1..Len(bvh) : bvh[i].entity = e})

C10_Tick ==
    (stage = "fade" /\ stage' = "scene") =>
        /\ \A q \in DOMAIN world \ DOMAIN fades :
              /\ world'[q] = world[q]
              /\ rasters'[world'[q].bitmap] = rasters[world[q].bitmap]
        /\ \A e \in DOMAIN fades :
              /\ rasters'[world'[e].bitmap].width = rasters[world[e].bitmap].width
              /\ rasters'[world'[e].bitmap].height = rasters[world[e].bitmap].height
              /\ IF fades[e].finished
                 THEN world'[e] = world[e]
                 ELSE world'[e].bitmap \notin DOMAIN rasters

C10_FadeRebindsHandle == [][C10_Tick]_vars

\* A placement holding a clone of a fade's first raster after the fade was
\* ticked: the clone still shows the first raster, the fade another one.
C10_Witness ==
    /\ stage = "scene"
    /\ \E e \in DOMAIN fades, q \in DOMAIN world \ DOMAIN fades :
          /\ applied[e].in
          /\ applied[e].alphas # <<>>
          /\ rasters[world[q].bitmap] = Raster(ViewWidth, ViewHeight, fades[e].base_color)
          /\ rasters[world[e].bitmap] # rasters[world[q].bitmap]

(* C11: a call of tile_cols or tile_rows on a bitmap of width              *)
(* (respectively height) 0, so that step = 0, panics before an iterator    *)
(* exists: no offset is yielded for that call and nothing iterates.        *)
C11_ZeroStepFailsFast ==
    /\ targs.step = 0 => (tstatus = "panicked" /\ yielded = <<>>)
    /\ tstatus = "panicked" => (targs.step = 0 /\ yielded = <<>>)
    /\ tstatus \in {"iterating", "exhausted"} => titer.step >= 1

\* tile_rows was called with height 0 and a start that a started iterator
\* would have yielded offsets for.
C11_Witness ==
    /\ tstatus = "panicked"
    /\ targs.axis = "y"
    /\ targs.step = 0
    /\ targs.start < targs.end

----------------------------------------------------------------------------
(* Depth order of two Transform.translation.z values.                      *)
DepthLt(a, b) ==
    IF ~a.fin THEN FALSE
    ELSE IF ~b.fin THEN TRUE
    ELSE IF a.sat THEN FALSE
    ELSE IF b.sat THEN TRUE
    ELSE a.v < b.v

KeyLt(a, b) == ~KeyLeq(b, a)

\* The composite_raster calls of the last draw that cover pixel p.
Covering(p) ==
    {i \in 1..Len(draw.composites) :
        LET c == draw.composites[i]
            r == rasters[world[c.entity].bitmap]
        IN  /\ c.x <= p[1] /\ p[1] < c.x + r.width
            /\ c.y <= p[2] /\ p[2] < c.y + r.height}

----------------------------------------------------------------------------
(* C13: for a placement without the ScreenSpace flag the position          *)
(* resolved by BitmapPlugin::update is, in each component, the value       *)
(* placement - camera * depth for a finite depth and placement - camera    *)
(* for an infinite one, with the fraction dropped toward zero.  So a       *)
(* depth-0 placement resolves to its own truncated position wherever the   *)
(* camera is, and an infinite-depth one to the truncated difference to     *)
(* the camera translation.  A placement that is not tiled is composited    *)
(* at the resolved position.                                               *)
\* r is v (counting 1/2048^2) with the fraction dropped toward zero.
IsTruncationOfSq(r, v) ==
    IF v >= 0
    THEN r * 4194304 <= v /\ v < (r + 1) * 4194304
    ELSE (r - 1) * 4194304 < v /\ v <= r * 4194304

C13_Component(r, x, cam, z) ==
    /\ (z.fin /\ ~z.sat) => IsTruncationOfSq(r, x * 2048 - cam * z.v)
    /\ ~z.fin => IsTruncationOf(r, x - cam)
    /\ z = Finite(0) => IsTruncationOf(r, x)

C13_WorldSpaceParallax ==
    draw.ran =>
        \A i \in 1..Len(draw.sorted) :
            LET e == draw.sorted[i]
                r == draw.resolved[i]
            IN  ~world[e].screen =>
                    /\ C13_Component(r[1], world[e].x, camera.x, world[e].z)
                    /\ C13_Component(r[2], world[e].y, camera.y, world[e].z)
                    /\ ~world[e].tiled =>
                          \A j \in 1..Len(draw.composites) :
                              draw.composites[j].entity = e =>
                                  /\ draw.composites[j].x = r[1]
                                  /\ draw.composites[j].y = r[2]

\* With the camera away from the origin, a depth-0 placement drawn where
\* it stands and an infinite-depth one drawn shifted by the camera.
C13_Witness ==
    /\ draw.ran
    /\ camera.x # 0 /\ camera.y # 0
    /\ \E i, j \in 1..Len(draw.sorted) :
          LET e == draw.sorted[i]
              f == draw.sorted[j]
          IN  /\ ~world[e].screen /\ ~world[e].tiled /\ world[e].z = Finite(0)
              /\ draw.resolved[i] = <<Trunc(world[e].x), Trunc(world[e].y)>>
              /\ ~world[f].screen /\ ~world[f].tiled /\ ~world[f].z.fin
              /\ draw.resolved[j] # <<Trunc(world[f].x), Trunc(world[f].y)>>
              /\ CallsOf(e) = 1 /\ CallsOf(f) = 1

----------------------------------------------------------------------------
(* C14: when BitmapPlugin::update runs, the index holds one entry for      *)
(* each placement that exists now and nothing else, and the box of an      *)
(* entry is the placement's current (x, y) and (x + width, y + height) of  *)
(* its current raster; every entity the overlap query reports exists, so   *)
(* bitmaps.get(entity).unwrap() does not panic, also after placements      *)
(* were despawned.                                                         *)
C14_IndexIsCurrent ==
    /\ stage # "panicked"
    /\ stage = "draw" =>
          /\ Len(bvh) = Cardinality(DOMAIN world)
          /\ \A i \in 1..Len(bvh) :
                LET e == bvh[i].entity
                    box == bvh[i].aabb
                IN  /\ e \in DOMAIN world
                    /\ box.minx = world[e].x
                    /\ box.miny = world[e].y
                    /\ box.maxx - box.minx = 2048 * rasters[world[e].bitmap].width
                    /\ box.maxy - box.miny = 2048 * rasters[world[e].bitmap].height
    /\ draw.ran => draw.hits \subseteq DOMAIN world

\* A draw that found a placement through the index in a frame after a
\* fade, which earlier frames had indexed, was despawned.
C14_Witness ==
    /\ draw.ran
    /\ draw.hits # {}
    /\ \E e \in DOMAIN signalled : signalled[e] = 1 /\ e \notin DOMAIN world

----------------------------------------------------------------------------
(* C15: after BitmapPlugin::update the frame buffer has                    *)
(* width * height * 4 bytes, they are the camera raster's pixels row by    *)
(* row, four channels each, and every pixel that no composite of this      *)
(* frame covers is fully transparent in the raster and in the buffer,      *)
(* whatever earlier frames drew there.                                     *)
FrameBytes(p) ==
    LET base == (p[2] * ViewWidth + p[1]) * 4
    IN  <<frame[base + 1], frame[base + 2], frame[base + 3], frame[base + 4]>>

C15_ClearThenDraw ==
    draw.ran =>
        /\ Len(frame) = ViewWidth * ViewHeight * 4
        /\ \A p \in Pixels :
              /\ FrameBytes(p) = camera.raster[p]
              /\ Covering(p) = {} => FrameBytes(p) = <<0, 0, 0, 0>>

\* A frame with covered and uncovered pixels, drawn after a fade that had
\* filled the whole viewport in an earlier frame was despawned.
C15_Witness ==
    /\ draw.ran
    /\ \E e \in DOMAIN signalled : signalled[e] = 1 /\ e \notin DOMAIN world
    /\ \E p \in Pixels : Covering(p) = {} /\ FrameBytes(p) = <<0, 0, 0, 0>>
    /\ \E p \in Pixels : Covering(p) # {} /\ FrameBytes(p)[4] = 255

----------------------------------------------------------------------------
\* time.delta() of a run of FadePlugin::update, for a fade that it ticked.
TickedBy(e, delta) ==
    /\ delta \in 1..MaxDelta
    /\ fades'[e].elapsed = Min(fades[e].elapsed + delta, fades[e].duration)

RasterReplaced(e) == world'[e].bitmap # world[e].bitmap

(* C16 as stated: a run of FadePlugin::update replaces the raster of a     *)
(* fading placement only if elapsed is still < duration after the tick;    *)
(* the run in which elapsed becomes >= duration signals the removal and    *)
(* leaves the raster as it was.                                            *)
C16_OriginalTick ==
    (stage = "fade" /\ stage' = "scene") =>
        \A e \in DOMAIN fades :
            fades[e].elapsed < fades[e].duration =>
                IF fades'[e].elapsed < fades[e].duration
                THEN RasterReplaced(e) /\ signalled'[e] = 0
                ELSE ~RasterReplaced(e) /\ signalled'[e] = 1 /\ e \in commands'

C16_ReplacesOnlyBeforeDuration == [][C16_OriginalTick]_vars

(* C16 amended: a run of FadePlugin::update that finds elapsed < duration  *)
(* ticks the timer and replaces the raster with the base colour times the  *)
(* interpolated alpha, also when the tick brings elapsed to the duration   *)
(* (the alpha is then the ramp's end), and signals nothing; the first run  *)
(* that finds elapsed >= duration signals the removal and neither ticks    *)
(* nor replaces the raster.                                                *)
C16_AmendedTick ==
    (stage = "fade" /\ stage' = "scene") =>
        \A e \in DOMAIN fades :
            IF fades[e].elapsed < fades[e].duration
            THEN /\ \E delta \in 1..MaxDelta : TickedBy(e, delta)
                 /\ RasterReplaced(e)
                 /\ rasters'[world'[e].bitmap].color =
                        [c \in 1..4 |->
                            Ch8Mul(fades[e].base_color[c],
                                   Ch8Lerp(fades[e].from, fades[e].to,
                                           Ch8From(fades'[e].elapsed, fades[e].duration)))]
                 /\ fades'[e].elapsed = fades[e].duration =>
                        rasters'[world'[e].bitmap].color =
                            (IF fades[e].to = 255 THEN fades[e].base_color ELSE Clear)
                 /\ signalled'[e] = 0 /\ e \notin commands'
            ELSE /\ fades'[e] = fades[e]
                 /\ ~RasterReplaced(e)
                 /\ signalled[e] = 0 /\ signalled'[e] = 1 /\ e \in commands'

C16_ReplacesUntilFinished == [][C16_AmendedTick]_vars

\* A fade-out right after the run that brought elapsed to the duration in
\* its second tick: the raster is the base colour, nothing is signalled.
C16_Witness ==
    /\ stage = "scene"
    /\ \E e \in DOMAIN fades :
          /\ ~applied[e].in
          /\ fades[e].elapsed = fades[e].duration
          /\ Len(applied[e].alphas) = 2
          /\ rasters[world[e].bitmap].color = fades[e].base_color
          /\ signalled[e] = 0 /\ e \notin commands

----------------------------------------------------------------------------
(* C17 as stated: in one run of BitmapPlugin::update every composite of a  *)
(* placement made by Camera::fade_in or Camera::fade_out comes after       *)
(* every composite of a placement of finite depth.                         *)
C17_FadeAfterFinite ==
    draw.ran =>
        \A i, j \in 1..Len(draw.composites) :
            (/\ draw.composites[i].entity \in DOMAIN fades
             /\ world[draw.composites[j].entity].z.fin)
            => j < i

----------------------------------------------------------------------------
(* C18 as stated: after a run of BitmapPlugin::update, every placement     *)
(* that is not tiled, not screen-space and of finite depth, and whose      *)
(* rectangle at its resolved screen position (of its bitmap's width and    *)
(* height) meets the viewport [0, width) x [0, height), is in the drawn    *)
(* list and was composited.                                                *)
MeetsViewport(pos, raster) ==
    /\ pos[1] < ViewWidth /\ 0 < pos[1] + raster.width
    /\ pos[2] < ViewHeight /\ 0 < pos[2] + raster.height

C18_CullingKeepsVisible ==
    draw.ran =>
        \A e \in DOMAIN world :
            (/\ ~world[e].tiled /\ ~world[e].screen
             /\ world[e].z.fin /\ ~world[e].z.sat
             /\ MeetsViewport(ResolvePosition(world[e], camera),
                              rasters[world[e].bitmap]))
            => (Count(draw.sorted, e) = 1 /\ CallsOf(e) = 1)

====
